---- MODULE Spec2Model ----
(***************************************************************************)
(* A model of the tree-structured checkbox prompt of                       *)
(* npm-update-interactive (select.ts, kept as src/unnamed/part_001) and of *)
(* its keypress handler.                                                   *)
(*                                                                         *)
(* Indices are 0-based as in the source: `active` holds the same numbers   *)
(* the TypeScript holds, and At(s, i) reads the JavaScript s[i].           *)
(* A read outside an array is the JavaScript `undefined` (Undefined); a    *)
(* property read on undefined is a TypeError, which rejects the promise of *)
(* the async handler: nobody handles that rejection, so Node ends the      *)
(* process (session = "crashed").                                          *)
(***************************************************************************)
EXTENDS Integers, Sequences, FiniteSets, TLC

\* ------------------------------------------------------------------ bounds
\* the longest root sequence of choices given to the prompt
MaxRoot == 2
\* the largest number of validate calls outstanding at once
MaxPending == 2
\* the largest number of help actions outstanding at once
MaxHelp == 2

\* ------------------------------------------------------------------- items
\* One record shape for the three item variants; a field a variant does not
\* have holds a fixed filler that no operator reads for that variant.
MkSeparator == [type |-> "separator", value |-> 0, disabled |-> FALSE,
                checked |-> FALSE, expanded |-> FALSE, choices |-> <<>>]

MkChoice(v, dis, chk) == [type |-> "choice", value |-> v, disabled |-> dis,
                          checked |-> chk, expanded |-> FALSE, choices |-> <<>>]

MkGroup(dis, exp, kids) == [type |-> "group", value |-> 0, disabled |-> dis,
                            checked |-> FALSE, expanded |-> exp, choices |-> kids]

\* the JavaScript undefined, as the result of reading outside an array
Undefined == [type |-> "undefined", value |-> 0, disabled |-> FALSE,
              checked |-> FALSE, expanded |-> FALSE, choices |-> <<>>]

\* s[i] of JavaScript: 0-based, undefined outside the array
At(s, i) == IF i >= 0 /\ i < Len(s) THEN s[i + 1] ELSE Undefined

isSeparator(item) == item.type = "separator"

\* choices !== undefined
isGroup(x) == x.type = "group"

isSelectable(item) == ~isSeparator(item) /\ ~item.disabled

isChecked(item) == isSelectable(item) /\ item.checked

\* an anyChecked that takes every Group for checked
anyCheckedOrGroup(item) == isGroup(item) \/ isChecked(item)

RECURSIVE anyChecked(_)
anyChecked(item) ==
  IF isGroup(item)
    THEN \E k \in 1..Len(item.choices) : anyChecked(item.choices[k])
    ELSE isChecked(item)

RECURSIVE allChecked(_)
allChecked(item) ==
  IF isGroup(item)
    THEN \A k \in 1..Len(item.choices) : allChecked(item.choices[k])
    ELSE isChecked(item)

\* getChecked, and items.flatMap(getChecked) as getCheckedAll
RECURSIVE getChecked(_)
RECURSIVE getCheckedAll(_)
getChecked(item) ==
  IF isSeparator(item) THEN <<>>
  ELSE IF isGroup(item) THEN getCheckedAll(item.choices)
  ELSE IF item.checked THEN <<item>> ELSE <<>>

\* a flatMap that puts the later items first
RECURSIVE getCheckedAllReversed(_)
getCheckedAllReversed(s) ==
  IF s = <<>> THEN <<>> ELSE getCheckedAllReversed(Tail(s)) \o getChecked(Head(s))

getCheckedAll(s) ==
  IF s = <<>> THEN <<>> ELSE getChecked(Head(s)) \o getCheckedAll(Tail(s))

\* selection.map((choice) => choice.value)
Values(sel) == [k \in 1..Len(sel) |-> sel[k].value]

\* ------------------------------------------------------------ the messages
NoError == "undefined"
MsgRequired == "At least one choice must be selected"
MsgFallback == "You must select a valid value"
MsgCustom == "custom message of validate"

\* what validate can resolve to: a boolean or a string
VBool(b) == [kind |-> "boolean", bool |-> b, str |-> ""]
VStr(s) == [kind |-> "string", bool |-> FALSE, str |-> s]
ValidateResults == {VBool(TRUE), VBool(FALSE), VStr(""), VStr(MsgCustom)}

\* `if (isValid)` in place of `isValid === true`
IsTruthy(r) == IF r.kind = "boolean" THEN r.bool ELSE r.str # ""

\* isValid === true
IsTrue(r) == r.kind = "boolean" /\ r.bool

\* the fallback whatever validate returned
AlwaysFallback(r) == MsgFallback

\* isValid || "You must select a valid value"
OrFallback(r) == IF r.kind = "string" /\ r.str # "" THEN r.str ELSE MsgFallback

\* --------------------------------------------------- the choices supplied
\* The caller's choices are drawn from sequences, MaxRoot long at most, over
\* an alphabet of item shapes: a Separator, a Choice (enabled or disabled),
\* and Groups (collapsed or expanded) with no child, with two children of
\* which the second may be disabled, and a disabled Group with one child.
\* The first two root items are of any of these shapes; the root items after
\* them are Separators and Choices.
\* Choices start unchecked, as index.ts supplies them; the keys reach the
\* other checked states.
EnabledLeaf == MkChoice(0, FALSE, FALSE)

Leaves == {MkChoice(0, d, FALSE) : d \in BOOLEAN}

KidSeqs == {<<>>} \cup {<<EnabledLeaf, b>> : b \in Leaves}

Groups ==
  {MkGroup(FALSE, e, ks) : e \in BOOLEAN, ks \in KidSeqs}
    \cup {MkGroup(TRUE, e, <<EnabledLeaf>>) : e \in BOOLEAN}

ItemAlphabet == {MkSeparator} \cup Leaves \cup Groups

\* every Choice gets a value of its own, growing in tree order, so that a
\* result shows the order of its values
Label(t) ==
  [i \in 1..Len(t) |->
    IF isGroup(t[i])
      THEN [t[i] EXCEPT !.choices =
              [j \in 1..Len(t[i].choices) |->
                [t[i].choices[j] EXCEPT !.value = 10 * i + j]]]
    ELSE IF isSeparator(t[i]) THEN t[i]
    ELSE [t[i] EXCEPT !.value = 10 * i]]

\* what a root item after the second is drawn from: the items that are no
\* Group
TailAlphabet == {MkSeparator} \cup Leaves

Trees ==
  {Label(t) : t \in {q \in UNION {[1..n -> ItemAlphabet] : n \in 1..MaxRoot} :
                       \A k \in 3..Len(q) : q[k] \in TailAlphabet}}

\* loop (default true) is handed to usePagination and read by no branch of
\* the keypress handler, so it is paired with required (default false)
\* rather than crossed with it: the defaults, and both options set against
\* their defaults. withHelp says whether the items carry a help action
\* (all of them do or none does); items with help actions are explored under
\* the defaults. pageSize is the largest number of root items, and one less
\* under the defaults, so that the root items fit the page in some sessions
\* and not in others.
Configs ==
  {[loop |-> l, required |-> ~l, asyncValidate |-> a, withHelp |-> FALSE,
    pageSize |-> MaxRoot] : l \in BOOLEAN, a \in BOOLEAN}
    \cup {[loop |-> TRUE, required |-> FALSE, asyncValidate |-> FALSE,
           withHelp |-> TRUE, pageSize |-> MaxRoot]}
    \cup {[loop |-> TRUE, required |-> FALSE, asyncValidate |-> FALSE,
           withHelp |-> FALSE, pageSize |-> MaxRoot - 1]}

\* ------------------------------------------------------------------- state
VARIABLES
  config,    \* loop, required, and whether validate does asynchronous work
  items,     \* useState: the tree
  active,    \* useState: the focus path, one 0-based index per level
  status,    \* useState: "pending" | "done"
  errorMsg,  \* useState: the error of the last failed confirm
  pending,   \* the Enter handlers suspended at `await validate(...)`
  yielded,   \* the arguments of the calls of done(...), in order
  session,   \* "live" | "resolved" | "startupError" | "crashed"
  helps,     \* the help actions that were called and have not settled
  showHelpTip,    \* useState
  firstRender,    \* useRef: firstRender.current
  helpTipBottom,  \* the last render wrote "(Use arrow keys to reveal more choices)"
  hintRenders     \* how many renders of the session wrote it

\* the state of the command-line tool (index.ts) around the prompt
VARIABLES
  options,      \* program.opts(): latest, global, save, dryRun
  workspaceMap, \* the entries of getWorkspaceMap(), in insertion order
  outdated,     \* the output of npm outdated --json, in the order of its keys
  offered,      \* the outdated entries offered as Choices, in tree order
  pc,           \* where main() stands
  outcome,      \* how the promise of checkbox(...) settled
  answer,       \* main's answer
  cursor,       \* the entry of updates the install loop is at
  printed,      \* the commands written by console.log(cmd), in order
  executed,     \* the commands handed to exec(cmd), in order
  exitCode      \* the arguments of the calls of process.exit

renderVars == <<showHelpTip, firstRender, helpTipBottom, hintRenders>>

promptVars ==
  <<config, items, active, status, errorMsg, pending, yielded, session, helps,
    renderVars>>

toolVars ==
  <<options, workspaceMap, outdated, offered, pc, outcome, answer, cursor, printed, executed, exitCode>>

vars == <<promptVars, toolVars>>

\* a findIndex that passes over the Separators only
findIndexOfItem(s) ==
  IF \E k \in 1..Len(s) : ~isSeparator(s[k])
    THEN (CHOOSE k \in 1..Len(s) :
            ~isSeparator(s[k]) /\ \A m \in 1..(k - 1) : isSeparator(s[m])) - 1
    ELSE -1

\* items.findIndex(isSelectable), -1 when there is none
findIndex(s) ==
  IF \E k \in 1..Len(s) : isSelectable(s[k])
    THEN (CHOOSE k \in 1..Len(s) :
            isSelectable(s[k]) /\ \A m \in 1..(k - 1) : ~isSelectable(s[m])) - 1
    ELSE -1

\* items.findLastIndex(isSelectable)
findLastIndex(s) ==
  IF \E k \in 1..Len(s) : isSelectable(s[k])
    THEN (CHOOSE k \in 1..Len(s) :
            isSelectable(s[k]) /\ \A m \in (k + 1)..Len(s) : ~isSelectable(s[m])) - 1
    ELSE -1

\* useMemo(..., [items]): recomputed from the current items
bounds == [first |-> findIndex(items), last |-> findLastIndex(items)]

\* theme.helpMode of the default theme; instructions is left undefined
helpMode == "auto"

\* the end of the render function: whether helpTipBottom is the hint, and
\* firstRender.current after it. A render of status "done" returns before.
render(st, its, show, first, pageSize) ==
  IF st = "done" THEN [helpTipBottom |-> FALSE, firstRender |-> first]
  ELSE IF /\ helpMode = "always" \/ (helpMode = "auto" /\ show)
          /\ Len(its) > pageSize
          /\ helpMode = "always" \/ (helpMode = "auto" /\ first)
    THEN [helpTipBottom |-> TRUE, firstRender |-> FALSE]
  ELSE [helpTipBottom |-> FALSE, firstRender |-> first]

\* the render that follows a change of state
Rerender ==
  LET r == render(status', items', showHelpTip', firstRender, config.pageSize)
  IN /\ helpTipBottom' = r.helpTipBottom
     /\ firstRender' = r.firstRender
     /\ hintRenders' = hintRenders + (IF r.helpTipBottom THEN 1 ELSE 0)

\* setStatus and setError of the Enter branch: a setter given the value the
\* state already has changes nothing, and no render follows
RerenderOnChange ==
  IF status' = status /\ errorMsg' = errorMsg
    THEN UNCHANGED <<firstRender, helpTipBottom, hintRenders>>
    ELSE Rerender

\* The prompt taken by itself: the tool around it is left out (its variables
\* keep these values).
ToolIdle ==
  /\ options = [latest |-> FALSE, global |-> FALSE, save |-> FALSE, dryRun |-> FALSE]
  /\ workspaceMap = <<>>
  /\ outdated = <<>>
  /\ offered = <<>>
  /\ pc = "idle"
  /\ outcome = "none"
  /\ answer = <<>>
  /\ cursor = 0
  /\ printed = <<>>
  /\ executed = <<>>
  /\ exitCode = <<>>

\* The state after the first render. The bounds memo throws when no root
\* item is selectable, and the prompt never starts.
\* A validate that does asynchronous work, and items with help actions, are
\* explored on the trees of one root item.
Init ==
  \E t \in Trees, c \in Configs :
    /\ (c.asyncValidate \/ c.withHelp) => Len(t) = 1
    /\ ToolIdle
    /\ helps = <<>>
    /\ config = c
    /\ items = t
    /\ status = "pending"
    /\ errorMsg = NoError
    /\ pending = <<>>
    /\ yielded = <<>>
    /\ showHelpTip = TRUE
    /\ IF findIndex(t) < 0
         THEN /\ session = "startupError" /\ active = <<>>
              /\ firstRender = TRUE /\ helpTipBottom = FALSE /\ hintRenders = 0
         ELSE /\ session = "live" /\ active = <<findIndex(t)>>
              /\ LET r == render("pending", t, TRUE, TRUE, c.pageSize)
                 IN /\ firstRender = r.firstRender
                    /\ helpTipBottom = r.helpTipBottom
                    /\ hintRenders = (IF r.helpTipBottom THEN 1 ELSE 0)

\* A keypress reaches the handler while the prompt is live: done(...) ends
\* the prompt, which removes the keypress listener.
KeyAccepted == session = "live"

\* a throw inside the async handler: an unhandled rejection ends the process
Crash ==
  /\ session' = "crashed"
  /\ UNCHANGED <<toolVars, helps, config, items, active, status, errorMsg, pending,
                 yielded, renderVars>>

RemoveAt(s, i) == SubSeq(s, 1, i - 1) \o SubSeq(s, i + 1, Len(s))

\* a path, or the mark of a TypeError
Path(p) == [ok |-> TRUE, path |-> p]
Thrown == [ok |-> FALSE, path |-> <<>>]

\* -------------------------------------------------------------- navigation
\* the reduce of the Down branch: the item at each level of the path
RECURSIVE hierarchyFrom(_, _)
hierarchyFrom(choices, path) ==
  IF path = <<>> THEN <<>>
  ELSE LET choice == At(choices, Head(path))
       IN <<choice>> \o
          hierarchyFrom(IF isGroup(choice) THEN choice.choices ELSE <<>>, Tail(path))

\* a Down that descends into a Group without reading its expanded flag
downTargetAnyGroup(its, act) ==
  LET hierarchy == hierarchyFrom(its, act)
      n == Len(act)
      currentSelectedItem == hierarchy[n]
  IN IF \E k \in 1..n : hierarchy[k] = Undefined THEN Thrown
     ELSE IF isGroup(currentSelectedItem) /\ Len(currentSelectedItem.choices) # 0
       THEN Path(act \o <<0>>)
     ELSE IF n = 1 THEN Path(<<act[1] + 1>>)
     ELSE LET parentSelectedItem == hierarchy[n - 1]
              nextChildIndex == act[n] + 1
          IN IF nextChildIndex < Len(parentSelectedItem.choices)
               THEN Path(SubSeq(act, 1, n - 1) \o <<nextChildIndex>>)
               ELSE Path(SubSeq(act, 1, n - 2) \o <<act[n - 1] + 1>>)

downTarget(its, act) ==
  LET hierarchy == hierarchyFrom(its, act)
      n == Len(act)
      currentSelectedItem == hierarchy[n]
  IN \* isGroup(choice) reads choice.choices: a TypeError on undefined
     IF \E k \in 1..n : hierarchy[k] = Undefined THEN Thrown
     ELSE IF /\ isGroup(currentSelectedItem)
             /\ currentSelectedItem.expanded
             /\ Len(currentSelectedItem.choices) # 0
       THEN Path(act \o <<0>>)
     ELSE IF n = 1 THEN Path(<<act[1] + 1>>)
     ELSE LET parentSelectedItem == hierarchy[n - 1]
              nextChildIndex == act[n] + 1
          IN IF nextChildIndex < Len(parentSelectedItem.choices)
               THEN Path(SubSeq(act, 1, n - 1) \o <<nextChildIndex>>)
               ELSE Path(SubSeq(act, 1, n - 2) \o <<act[n - 1] + 1>>)

\* calcPrior: the trailing path into an expanded Group
RECURSIVE calcPrior(_)
calcPrior(ptr) ==
  IF ptr = Undefined THEN Thrown
  ELSE IF isGroup(ptr) /\ ptr.expanded
    THEN LET idx == Len(ptr.choices) - 1
             rest == calcPrior(At(ptr.choices, idx))
         IN IF rest.ok THEN Path(<<idx>> \o rest.path) ELSE Thrown
    ELSE Path(<<>>)

\* ptr = items[n[0]]; ptr = ptr.choices[n[i]]: undefined once a level has
\* no such child, a TypeError (here also Undefined, which calcPrior rejects)
\* when a level has no choices at all
RECURSIVE walk(_, _)
walk(ptr, rest) ==
  IF rest = <<>> THEN ptr
  ELSE IF ~isGroup(ptr) THEN Undefined
  ELSE walk(At(ptr.choices, Head(rest)), Tail(rest))

upTarget(its, act, bnds) ==
  LET len == Len(act)
  IN IF len = 1 /\ act[1] = 0 THEN Path(<<bnds.last>>)
     ELSE IF act[len] = 0 THEN Path(SubSeq(act, 1, len - 1))
     ELSE LET n == SubSeq(act, 1, len - 1) \o <<act[len] - 1>>
              ptr == walk(At(its, n[1]), Tail(n))
              prior == calcPrior(ptr)
          IN IF prior.ok THEN Path(n \o prior.path) ELSE Thrown

DownKey ==
  /\ KeyAccepted
  /\ LET t == downTarget(items, active)
     IN IF t.ok
          THEN /\ active' = t.path
               /\ UNCHANGED <<toolVars, helps, config, items, status, errorMsg,
                              pending, yielded, session, showHelpTip>>
               /\ Rerender
          ELSE Crash

UpKey ==
  /\ KeyAccepted
  /\ LET t == upTarget(items, active, bounds)
     IN IF t.ok
          THEN /\ active' = t.path
               /\ UNCHANGED <<toolVars, helps, config, items, status, errorMsg,
                              pending, yielded, session, showHelpTip>>
               /\ Rerender
          ELSE Crash


\* ------------------------------------------------------- expand, collapse
\* a Right that expands every Group
RECURSIVE expandMapAll(_, _, _)
expandMapAll(s, act, depth) ==
  [k \in 1..Len(s) |->
    IF isGroup(s[k])
      THEN [s[k] EXCEPT !.expanded = TRUE,
                        !.choices = expandMapAll(s[k].choices, act, depth + 1)]
      ELSE s[k]]

\* the mapItem of the Right branch
RECURSIVE expandMap(_, _, _)
expandMap(s, act, depth) ==
  [k \in 1..Len(s) |->
    IF depth < Len(act) /\ k - 1 = act[depth + 1] /\ isGroup(s[k])
      THEN [s[k] EXCEPT !.expanded = TRUE,
                        !.choices = expandMap(s[k].choices, act, depth + 1)]
      ELSE s[k]]

\* a Left that collapses every Group
RECURSIVE collapseMapAll(_, _, _, _)
collapseMapAll(s, act, depth, isParentSelected) ==
  [k \in 1..Len(s) |->
    IF isGroup(s[k])
      THEN [s[k] EXCEPT !.expanded = FALSE,
                        !.choices = collapseMapAll(s[k].choices, act, depth + 1, TRUE)]
      ELSE s[k]]

\* a Left that also unchecks what it collapses
RECURSIVE collapseMapUnchecking(_, _, _, _)
collapseMapUnchecking(s, act, depth, isParentSelected) ==
  [k \in 1..Len(s) |->
    LET currentInSelectionTree ==
          isParentSelected \/ (depth < Len(act) /\ k - 1 = act[depth + 1])
    IN IF isGroup(s[k]) /\ currentInSelectionTree
         THEN [s[k] EXCEPT !.expanded = FALSE,
                           !.choices = collapseMapUnchecking(s[k].choices, act, depth + 1,
                                                             currentInSelectionTree)]
       ELSE IF isParentSelected THEN [s[k] EXCEPT !.checked = FALSE]
       ELSE s[k]]

\* the mapItem of the Left branch
RECURSIVE collapseMap(_, _, _, _)
collapseMap(s, act, depth, isParentSelected) ==
  [k \in 1..Len(s) |->
    LET currentInSelectionTree ==
          isParentSelected \/ (depth < Len(act) /\ k - 1 = act[depth + 1])
    IN IF isGroup(s[k]) /\ currentInSelectionTree
         THEN [s[k] EXCEPT !.expanded = FALSE,
                           !.choices = collapseMap(s[k].choices, act, depth + 1,
                                                   currentInSelectionTree)]
         ELSE s[k]]

RightKey ==
  /\ KeyAccepted
  /\ items' = expandMap(items, active, 0)
  /\ UNCHANGED <<toolVars, helps, config, active, status, errorMsg, pending,
                 yielded, session, showHelpTip>>
  /\ Rerender

LeftKey ==
  /\ KeyAccepted
  /\ items' = collapseMap(items, active, 0, FALSE)
  /\ active' = IF Len(active) > 1 THEN SubSeq(active, 1, Len(active) - 1) ELSE active
  /\ UNCHANGED <<toolVars, helps, config, status, errorMsg, pending, yielded,
                 session, showHelpTip>>
  /\ Rerender

\* ---------------------------------------------------------------- checking
RECURSIVE mapItemStatic(_, _)
mapItemStatic(checked, item) ==
  IF isGroup(item)
    THEN [item EXCEPT !.choices =
            [k \in 1..Len(item.choices) |-> mapItemStatic(checked, item.choices[k])]]
  ELSE IF isSelectable(item) THEN [item EXCEPT !.checked = checked]
  ELSE item

\* a Space that flips the focused Choice without asking isSelectable
RECURSIVE spaceMapAnyChoice(_, _, _)
spaceMapAnyChoice(s, act, depth) ==
  [k \in 1..Len(s) |->
    LET item == s[k]
        finalIteration == depth = Len(act) - 1
    IN IF depth < Len(act) /\ k - 1 = act[depth + 1]
         THEN IF finalIteration
                THEN IF isGroup(item)
                       THEN LET checked == ~allChecked(item)
                            IN [item EXCEPT !.choices =
                                  [j \in 1..Len(item.choices) |->
                                    mapItemStatic(checked, item.choices[j])]]
                     ELSE IF ~isSeparator(item)
                       THEN [item EXCEPT !.checked = ~item.checked]
                     ELSE item
                ELSE [item EXCEPT !.choices = spaceMapAnyChoice(item.choices, act, depth + 1)]
         ELSE item]

\* the mapItem of the Space branch
RECURSIVE spaceMap(_, _, _)
spaceMap(s, act, depth) ==
  [k \in 1..Len(s) |->
    LET item == s[k]
        finalIteration == depth = Len(act) - 1
    IN IF depth < Len(act) /\ k - 1 = act[depth + 1]
         THEN IF finalIteration
                THEN IF isGroup(item)
                       THEN LET checked == ~allChecked(item)
                            IN [item EXCEPT !.choices =
                                  [j \in 1..Len(item.choices) |->
                                    mapItemStatic(checked, item.choices[j])]]
                     ELSE IF isSelectable(item)
                       THEN [item EXCEPT !.checked = ~item.checked]
                     ELSE item
                ELSE [item EXCEPT !.choices = spaceMap(item.choices, act, depth + 1)]
         ELSE item]

\* assert(isGroup(item)) of the Space branch fails at some level of the path
RECURSIVE spaceAsserts(_, _, _)
spaceAsserts(s, act, depth) ==
  /\ depth < Len(act) - 1
  /\ At(s, act[depth + 1]) # Undefined
  /\ \/ ~isGroup(At(s, act[depth + 1]))
     \/ spaceAsserts(At(s, act[depth + 1]).choices, act, depth + 1)

SpaceKey ==
  /\ KeyAccepted
  /\ errorMsg' = NoError
  /\ showHelpTip' = FALSE
  /\ IF spaceAsserts(items, active, 0)
       THEN /\ session' = "crashed"
            /\ UNCHANGED <<toolVars, helps, config, items, active, status, pending,
                           yielded, firstRender, helpTipBottom, hintRenders>>
       ELSE /\ items' = spaceMap(items, active, 0)
            /\ UNCHANGED <<toolVars, helps, config, active, status, pending,
                           yielded, session>>
            /\ Rerender

\* the checkbox of a Group in renderItem: its checked aggregation
aggregate(group) ==
  IF \A k \in 1..Len(group.choices) : allChecked(group.choices[k]) THEN "all"
  ELSE IF \E k \in 1..Len(group.choices) : anyChecked(group.choices[k]) THEN "partial"
  ELSE "none"

\* the check of the 'a' branch
RECURSIVE check(_, _)
check(selectAll, item) ==
  IF isGroup(item)
    THEN [item EXCEPT !.choices =
            [k \in 1..Len(item.choices) |-> check(selectAll, item.choices[k])]]
  ELSE IF isSelectable(item) THEN [item EXCEPT !.checked = selectAll]
  ELSE item

selectAllItems(its) ==
  LET selectAll == ~(\A k \in 1..Len(its) : allChecked(its[k]))
  IN [k \in 1..Len(its) |-> check(selectAll, its[k])]

AKey ==
  /\ KeyAccepted
  /\ items' = selectAllItems(items)
  /\ UNCHANGED <<toolVars, helps, config, active, status, errorMsg, pending,
                 yielded, session, showHelpTip>>
  /\ Rerender

\* a toggle that checks instead of flipping
RECURSIVE toggleChecks(_)
toggleChecks(item) ==
  IF isSeparator(item) THEN item
  ELSE IF isGroup(item)
    THEN [item EXCEPT !.choices =
            [k \in 1..Len(item.choices) |-> toggleChecks(item.choices[k])]]
  ELSE [item EXCEPT !.checked = TRUE]

RECURSIVE toggle(_)
toggle(item) ==
  IF isSeparator(item) THEN item
  ELSE IF isGroup(item)
    THEN [item EXCEPT !.choices =
            [k \in 1..Len(item.choices) |-> toggle(item.choices[k])]]
  ELSE [item EXCEPT !.checked = ~item.checked]

invertItems(its) == [k \in 1..Len(its) |-> toggle(its[k])]

IKey ==
  /\ KeyAccepted
  /\ items' = invertItems(items)
  /\ UNCHANGED <<toolVars, helps, config, active, status, errorMsg, pending,
                 yielded, session, showHelpTip>>
  /\ Rerender

\* -------------------------------------------------------------------- help
\* a '?' that calls the help action of the root item of the path
helpItemOfRoot(acc, rest) == Path(<<acc>>)

\* the reduce of the '?' branch: the focused item, Undefined when the path
\* leaves the tree; assert(isGroup(acc)) throws on the way when a level is
\* no Group
RECURSIVE helpItem(_, _)
helpItem(acc, rest) ==
  IF rest = <<>> THEN Path(<<acc>>)
  ELSE IF ~isGroup(acc) THEN Thrown
  ELSE helpItem(At(acc.choices, Head(rest)), Tail(rest))

\* the help action written on an item: mapping the items keeps it, whatever
\* becomes of checked and expanded
helpOf(item) == [type |-> item.type, value |-> item.value]

\* item.help?.() reads a property of item: a TypeError on undefined. The
\* call is not awaited: the handler returns with the action outstanding.
HelpKey ==
  /\ KeyAccepted
  /\ Len(helps) < MaxHelp
  /\ LET r == helpItem(At(items, active[1]), Tail(active))
     IN IF r.ok /\ r.path[1] # Undefined
          THEN /\ helps' = IF ~isSeparator(r.path[1]) /\ config.withHelp
                             THEN Append(helps, helpOf(r.path[1]))
                             ELSE helps
               /\ UNCHANGED <<toolVars, config, items, active, status, errorMsg,
                              pending, yielded, session, renderVars>>
          ELSE Crash

\* the promise of a help action settles; nothing waits for it
HelpSettles ==
  /\ session \in {"live", "resolved"}
  /\ \E i \in 1..Len(helps) : helps' = RemoveAt(helps, i)
  /\ UNCHANGED <<toolVars, config, items, active, status, errorMsg, pending,
                 yielded, session, renderVars>>

\* isNumberKey: unsupported, and every key no branch names
OtherKey ==
  /\ KeyAccepted
  /\ UNCHANGED vars

\* ------------------------------------------------------------- pagination
RECURSIVE countChoices(_)
RECURSIVE sumChoices(_)
\* item.choices.reduce((acc, choice) => acc + (isGroup(choice) ? countChoices(choice) : 1), 0)
countChoices(item) == sumChoices(item.choices)

sumChoices(s) ==
  IF s = <<>> THEN 0
  ELSE (IF isGroup(Head(s)) THEN countChoices(Head(s)) ELSE 1) + sumChoices(Tail(s))

\* active.reduce((acc, cur) => acc + cur + 1, 0)
RECURSIVE sumActive(_)
sumActive(act) == IF act = <<>> THEN 0 ELSE Head(act) + 1 + sumActive(Tail(act))

\* an index that counts the children of every Group before the focus,
\* collapsed or not
activeIndexCountingCollapsed(act, its) ==
  LET before == {i \in 0..(act[1] - 1) : isGroup(At(its, i))}
      RECURSIVE add(_)
      add(S) == IF S = {} THEN 0
                ELSE LET i == CHOOSE x \in S : TRUE
                     IN countChoices(At(its, i)) + add(S \ {i})
  IN sumActive(act) + add(before)

\* the sum over active, plus countChoices of every expanded Group before
\* active[0]
getActiveIndexForPagination(act, its) ==
  LET before == {i \in 0..(act[1] - 1) : isGroup(At(its, i)) /\ At(its, i).expanded}
      RECURSIVE add(_)
      add(S) == IF S = {} THEN 0
                ELSE LET i == CHOOSE x \in S : TRUE
                     IN countChoices(At(its, i)) + add(S \ {i})
  IN sumActive(act) + add(before)

\* the active index handed to usePagination
paginationIndex == getActiveIndexForPagination(active, items) - 1

\* the items handed to usePagination: the root items, every expanded Group
\* followed by its children
RECURSIVE pageItems(_)
pageItems(s) ==
  IF s = <<>> THEN <<>>
  ELSE LET item == Head(s)
       IN (IF isGroup(item) /\ item.expanded
             THEN <<item>> \o pageItems(item.choices)
             ELSE <<item>>) \o pageItems(Tail(s))

\* ------------------------------------------------------------------- Enter
\* what the closure of a suspended Enter handler holds: the selection, and
\* `items` as far as the handler reads it after the await
\* (items.some(anyChecked)); neither changes while the handler is suspended
handlerOf(its) ==
  [selection |-> getCheckedAll(its),
   anyChecked |-> \E k \in 1..Len(its) : anyChecked(its[k])]

\* the Enter branch after the await, for the handler h and validate's result
enterResume(h, isValid) ==
  IF config.required /\ ~h.anyChecked
    THEN /\ errorMsg' = MsgRequired
         /\ UNCHANGED <<status, yielded, session>>
  ELSE IF IsTrue(isValid)
    THEN /\ status' = "done"
         /\ yielded' = Append(yielded, Values(h.selection))
         /\ session' = IF session = "live" THEN "resolved" ELSE session
         /\ UNCHANGED errorMsg
  ELSE /\ errorMsg' = OrFallback(isValid)
       /\ UNCHANGED <<status, yielded, session>>

\* Enter with a validate that does no asynchronous work: the await resumes
\* in the microtask after the handler returns, before any other keypress
\* event, so the whole branch is one step
EnterWith(isValid) ==
  /\ KeyAccepted
  /\ ~config.asyncValidate
  /\ enterResume(handlerOf(items), isValid)
  /\ UNCHANGED <<toolVars, helps, config, items, active, pending, showHelpTip>>
  /\ RerenderOnChange

EnterKey == \E isValid \in ValidateResults : EnterWith(isValid)

\* Enter with a validate that does asynchronous work, up to
\* `await validate([...selection])`: validate is called and the handler is
\* suspended
EnterKeyAwait ==
  /\ KeyAccepted
  /\ config.asyncValidate
  /\ Len(pending) < MaxPending
  /\ pending' = Append(pending, handlerOf(items))
  /\ UNCHANGED <<toolVars, helps, config, items, active, status, errorMsg,
                 yielded, session, renderVars>>

\* validate settles and the handler that awaited it runs to its end; the
\* process is still running
SettlesWith(i, isValid) ==
  /\ session \in {"live", "resolved"}
  /\ i \in 1..Len(pending)
  /\ enterResume(pending[i], isValid)
  /\ pending' = RemoveAt(pending, i)
  /\ UNCHANGED <<toolVars, helps, config, items, active, showHelpTip>>
  /\ RerenderOnChange

ValidateSettles ==
  \E i \in 1..Len(pending), isValid \in ValidateResults : SettlesWith(i, isValid)

\* validate throws, or the promise it returned rejects: the await throws
\* inside the async handler, and nobody handles the rejection of the
\* handler's promise (a validate that fails is explored with the validate that
\* does asynchronous work; one that throws at once rejects the same promise)
ValidateRejects ==
  /\ session \in {"live", "resolved"}
  /\ \E i \in 1..Len(pending) : pending' = RemoveAt(pending, i)
  /\ session' = "crashed"
  /\ UNCHANGED <<toolVars, helps, config, items, active, status, errorMsg,
                 yielded, renderVars>>

\* the promise of the prompt is rejected and its caller is given the error:
\* createPrompt rejects it for an error thrown while rendering
promiseRejected == session = "startupError"

Next ==
  \/ DownKey
  \/ UpKey
  \/ RightKey
  \/ LeftKey
  \/ SpaceKey
  \/ AKey
  \/ IKey
  \/ HelpKey
  \/ OtherKey
  \/ EnterKey
  \/ EnterKeyAwait
  \/ ValidateSettles
  \/ ValidateRejects
  \/ HelpSettles

Spec == Init /\ [][Next]_vars

\* ================================================================ the tool
\* main() of index.ts from the output of npm outdated on: the choices are
\* built, the prompt is taken as a call that resolves with a selection or
\* rejects, then the install loop runs over the workspaces and the process
\* exits.

\* the most entries in the output of npm outdated in one run
MaxOffered == 2

Packages == {"left-pad", "semver"}

\* the values of `dependent` in the output of npm outdated: the root
\* package, a workspace, "global" under --global, and a name that is no key
\* of the workspace map
Dependents == {"root", "web", "global", "elsewhere"}

WantedVersion == "1.2.0"
LatestVersion == "2.0.0"

\* the installed versions: behind wanted, and at wanted but behind latest
CurrentVersions == {"1.0.0", WantedVersion}

\* Outdated & { pkg }: one entry of npm outdated
Infos ==
  {[pkg |-> p, dependent |-> d, current |-> c, wanted |-> WantedVersion,
    latest |-> LatestVersion] :
     p \in Packages, d \in Dependents, c \in CurrentVersions}

\* getWorkspaceMap: the one entry "global" (null) under --global; otherwise
\* the root package (workspacePath false) followed by the workspaces
WorkspaceMaps(global) ==
  IF global
    THEN {<<[key |-> "global", isNull |-> TRUE, workspacePath |-> ""]>>}
    ELSE {<<[key |-> "root", isNull |-> FALSE, workspacePath |-> ""]>>,
          <<[key |-> "root", isNull |-> FALSE, workspacePath |-> ""],
            [key |-> "web", isNull |-> FALSE, workspacePath |-> "packages/web"]>>}

OptionSets == [latest : BOOLEAN, global : BOOLEAN, save : BOOLEAN, dryRun : BOOLEAN]

\* sequences of entries, no two of them of one package in one dependent
OfferedSeqs ==
  {q \in UNION {[1..n -> Infos] : n \in 1..MaxOffered} :
     \A a, b \in 1..Len(q) :
       a # b => <<q[a].pkg, q[a].dependent>> # <<q[b].pkg, q[b].dependent>>}

\* the entries of q that are of package pkg, in their order
RECURSIVE entriesOf(_, _)
entriesOf(q, pkg) ==
  IF q = <<>> THEN <<>>
  ELSE (IF Head(q).pkg = pkg THEN <<Head(q)>> ELSE <<>>) \o entriesOf(Tail(q), pkg)

\* Record<string, Outdated | Array<Outdated>>: one key per package, in the
\* order of the first entry of each; npm gives an array to a package that
\* has more than one entry
RECURSIVE Report(_)
Report(q) ==
  IF q = <<>> THEN <<>>
  ELSE LET pkg == Head(q).pkg
           p == entriesOf(q, pkg)
       IN <<[pkg |-> pkg, isArray |-> Len(p) > 1, entries |-> p]>>
            \o Report(SelectSeq(Tail(q), LAMBDA e : e.pkg # pkg))

\* the prompt of index.ts is given no loop, required or validate
ToolPrompt ==
  /\ config = [loop |-> TRUE, required |-> FALSE, asyncValidate |-> FALSE,
               withHelp |-> TRUE, pageSize |-> 20]
  /\ items = <<>>
  /\ active = <<>>
  /\ status = "pending"
  /\ errorMsg = NoError
  /\ pending = <<>>
  /\ yielded = <<>>
  /\ session = "live"
  /\ helps = <<>>
  /\ showHelpTip = TRUE
  /\ firstRender = TRUE
  /\ helpTipBottom = FALSE
  /\ hintRenders = 0

\* main() has the workspace map and the output of npm outdated
ToolInit ==
  \E o \in OptionSets, q \in OfferedSeqs :
    \E m \in WorkspaceMaps(o.global) :
      \* under --global npm outdated names "global" as every dependent
      /\ \A k \in 1..Len(q) : (q[k].dependent = "global") = o.global
      /\ ToolPrompt
      /\ options = o
      /\ workspaceMap = m
      /\ outdated = Report(q)
      /\ offered = <<>>
      /\ pc = "start"
      /\ outcome = "none"
      /\ answer = <<>>
      /\ cursor = 0
      /\ printed = <<>>
      /\ executed = <<>>
      /\ exitCode = <<>>

\* main().then(() => process.exit(0)).catch((err) => { ...; process.exit(1) })
exit(code) ==
  /\ pc' = "exited"
  /\ exitCode' = Append(exitCode, code)

latestOrWanted == IF options.latest THEN "latest" ELSE "wanted"

\* info[latestOrWanted]
target(info) == IF latestOrWanted = "latest" THEN info.latest ELSE info.wanted

\* the digits of a version string
digit(c) == CHOOSE d \in 0..9 : <<"0", "1", "2", "3", "4", "5", "6", "7", "8", "9">>[d + 1] = c

\* new SemVer(version): major, minor and patch of "major.minor.patch"
parse(version) ==
  <<digit(SubSeq(version, 1, 1)), digit(SubSeq(version, 3, 3)),
    digit(SubSeq(version, 5, 5))>>

\* semver.neq(a, b)
neq(a, b) == parse(a) # parse(b)

\* const filter = (info) => semver.neq(info.current, info[latestOrWanted])
filter(info) == neq(info.current, target(info))

\* the filter of the keys of outdated: the strings are compared, and of a
\* package given as an array every entry has to differ
keep(p) == \A k \in 1..Len(p.entries) : p.entries[k].current # target(p.entries[k])

\* the callback of .map: a Group for an array, with the entries that pass
\* filter as its Choices, and a Choice otherwise
choiceOf(p) ==
  IF p.isArray
    THEN LET allTargetMatch ==
               \A k \in 1..Len(p.entries) : target(p.entries[k]) = target(p.entries[1])
             allCurrentMatch ==
               \A k \in 1..Len(p.entries) : p.entries[k].current = p.entries[1].current
             allMatch == allTargetMatch /\ allCurrentMatch
         IN [isGroup |-> TRUE, expanded |-> ~allMatch,
             choices |-> SelectSeq(p.entries, filter)]
    ELSE [isGroup |-> FALSE, expanded |-> FALSE, choices |-> <<p.entries[1]>>]

\* const choices = Object.keys(outdated).filter(...).map(...)
buildChoices(report) ==
  LET kept == SelectSeq(report, keep)
  IN [k \in 1..Len(kept) |-> choiceOf(kept[k])]

\* the values of the Choices of the tree, in tree order
RECURSIVE choiceValues(_)
choiceValues(choices) ==
  IF choices = <<>> THEN <<>>
  ELSE Head(choices).choices \o choiceValues(Tail(choices))

\* main() from the output of npm outdated to the call of checkbox(...); with
\* no choices main() returns and the process exits with 0
BuildChoices ==
  /\ pc = "start"
  /\ LET choices == buildChoices(outdated)
     IN IF Len(choices) = 0
          THEN /\ exit(0)
               /\ UNCHANGED offered
          ELSE /\ pc' = "prompt"
               /\ offered' = choiceValues(choices)
               /\ UNCHANGED exitCode
  /\ UNCHANGED <<promptVars, options, workspaceMap, outdated, outcome, answer,
                 cursor, printed, executed>>

\* the selections the prompt can resolve with: the offered entries that are
\* checked, in tree order
RECURSIVE SubSeqs(_)
SubSeqs(q) ==
  IF q = <<>> THEN {<<>>}
  ELSE LET rest == SubSeqs(Tail(q))
       IN rest \cup {<<Head(q)>> \o r : r \in rest}

\* what the promise of checkbox(...) can reject with
PromptErrors == {"ExitPromptError", "ValidationError", "Error"}

\* a .catch that takes every error for an abort
catchAll(err) == [thrown |-> FALSE, value |-> <<>>]

\* .catch((err) => { if (err instanceof ExitPromptError) return []; throw err; })
catchHandler(err) ==
  IF err = "ExitPromptError"
    THEN [thrown |-> FALSE, value |-> <<>>]
    ELSE [thrown |-> TRUE, value |-> <<>>]

\* updates.get(w): the selected entries whose dependent is w, in the order of
\* the answer
RECURSIVE depsOf(_, _)
depsOf(ans, w) ==
  IF ans = <<>> THEN <<>>
  ELSE (IF Head(ans).dependent = w THEN <<Head(ans)>> ELSE <<>>) \o depsOf(Tail(ans), w)

\* the first entry of updates at or after i that has dependencies, 0 when
\* the loop is over
nextWithDeps(ans, i) ==
  LET S == {k \in i..Len(workspaceMap) : depsOf(ans, workspaceMap[k].key) # <<>>}
  IN IF S = {} THEN 0 ELSE CHOOSE k \in S : \A m \in S : k <= m

\* the command line, kept in its parts: `npm install${destinationArg}${saveArg} ${dependenciesArgs}`
command(w, deps) ==
  [destinationArg |-> IF w.isNull THEN " --global"
                      ELSE IF w.workspacePath # "" THEN " -w " \o w.workspacePath
                      ELSE "",
   saveArg |-> IF options.save THEN " --save" ELSE "",
   dependenciesArgs |->
     [k \in 1..Len(deps) |->
        [pkg |-> deps[k].pkg,
         version |-> IF latestOrWanted = "latest" THEN deps[k].latest ELSE deps[k].wanted]]]

\* a loop that executes its commands under --dry-run too
runLoopExecuting(ans, from) ==
  LET k == nextWithDeps(ans, from)
  IN IF k = 0
       THEN /\ exit(0)
            /\ UNCHANGED <<cursor, printed, executed>>
       ELSE LET cmd == command(workspaceMap[k], depsOf(ans, workspaceMap[k].key))
            IN /\ cursor' = k
               /\ printed' = Append(printed, cmd)
               /\ executed' = Append(executed, cmd)
               /\ pc' = IF options.dryRun THEN "resolved" ELSE "exec"
               /\ UNCHANGED exitCode

\* main() from the answer to the next await: the next workspace that has
\* dependencies gets its command printed and, without --dry-run, executed;
\* with none left main() returns and the process exits with 0
runLoop(ans, from) ==
  LET k == nextWithDeps(ans, from)
  IN IF k = 0
       THEN /\ exit(0)
            /\ UNCHANGED <<cursor, printed, executed>>
       ELSE LET cmd == command(workspaceMap[k], depsOf(ans, workspaceMap[k].key))
            IN /\ cursor' = k
               /\ printed' = Append(printed, cmd)
               /\ executed' = IF options.dryRun THEN executed ELSE Append(executed, cmd)
               /\ pc' = IF options.dryRun THEN "resolved" ELSE "exec"
               /\ UNCHANGED exitCode

\* checkbox(...) resolves with the selection
PromptResolves ==
  /\ pc = "prompt"
  /\ \E sel \in SubSeqs(offered) :
       /\ outcome' = "resolved"
       /\ answer' = sel
       /\ runLoop(sel, 1)
  /\ UNCHANGED <<promptVars, options, workspaceMap, outdated, offered>>

\* checkbox(...) rejects: the catch handler gives the answer or throws again
PromptRejects ==
  /\ pc = "prompt"
  /\ \E err \in PromptErrors :
       LET c == catchHandler(err)
       IN /\ outcome' = err
          /\ IF c.thrown
               THEN /\ exit(1)
                    /\ UNCHANGED <<answer, cursor, printed, executed>>
               ELSE /\ answer' = c.value
                    /\ runLoop(c.value, 1)
  /\ UNCHANGED <<promptVars, options, workspaceMap, outdated, offered>>

\* the promise of a --dry-run iteration is resolved at once: the loop goes on
LoopContinues ==
  /\ pc = "resolved"
  /\ runLoop(answer, cursor + 1)
  /\ UNCHANGED <<promptVars, options, workspaceMap, outdated, offered, outcome, answer>>

\* the callback of exec(cmd, ...): an error rejects, main() throws and the
\* process exits with 1
ExecCompletes ==
  /\ pc = "exec"
  /\ \E error \in BOOLEAN :
       IF error
         THEN /\ exit(1)
              /\ UNCHANGED <<cursor, printed, executed>>
         ELSE runLoop(answer, cursor + 1)
  /\ UNCHANGED <<promptVars, options, workspaceMap, outdated, offered, outcome, answer>>

ToolNext ==
  \/ BuildChoices
  \/ PromptResolves
  \/ PromptRejects
  \/ LoopContinues
  \/ ExecCompletes

ToolSpec == ToolInit /\ [][ToolNext]_vars


\* ================================================================= claims
\* every Choice of the tree, at the root or inside a Group
AllChoices(its) ==
  {its[i] : i \in {k \in 1..Len(its) : its[k].type = "choice"}}
    \cup UNION {{its[i].choices[j] : j \in 1..Len(its[i].choices)} :
                 i \in {k \in 1..Len(its) : its[k].type = "group"}}

\* vals holds the values of exactly the checked Choices of the tree, each
\* once, in tree order (the values grow in tree order)
InTreeOrder(vals, its) ==
  /\ {vals[k] : k \in 1..Len(vals)} = {c.value : c \in {x \in AllChoices(its) : x.checked}}
  /\ \A a, b \in 1..Len(vals) : a < b => vals[a] < vals[b]

Last(s) == s[Len(s)]

requiredViolated(its) ==
  config.required /\ \A c \in AllChoices(its) : ~(c.checked /\ ~c.disabled)

\* C1: the result handed to done(...) is the sequence of the values of the
\* checked Choices of the tree at the moment Enter was pressed, in tree
\* order: the selection an Enter handler takes is in tree order, and a result
\* is yielded only as the selection of the handler that yields it.
C1_ResultInTreeOrder ==
  [][ /\ (EnterKey /\ yielded' # yielded) =>
           /\ yielded' = Append(yielded, Last(yielded'))
           /\ InTreeOrder(Last(yielded'), items)
      /\ EnterKeyAwait => InTreeOrder(Values(Last(pending').selection), items)
      /\ (ValidateSettles /\ yielded' # yielded) =>
           \E i \in 1..Len(pending) :
             /\ pending' = RemoveAt(pending, i)
             /\ yielded' = Append(yielded, Values(pending[i].selection))
    ]_vars

\* a result holding both children of the first root Group and the root
\* Choice after it
C1_Witness == yielded # <<>> /\ yielded[1] = <<11, 12, 20>>

\* C2: status starts pending; it changes only from pending to done, and only
\* in a step that completes an Enter whose required check passes and whose
\* validate resolved to exactly true; every other key, the Enter that only
\* starts validate, and every Enter that fails leave status as it is.
C2_DoneOnlyByValidEnter ==
  /\ status = "pending"
  /\ [][ /\ status' # status =>
              /\ status = "pending" /\ status' = "done"
              /\ \/ EnterWith(VBool(TRUE)) /\ ~requiredViolated(items)
                 \/ \E i \in 1..Len(pending) :
                      /\ SettlesWith(i, VBool(TRUE))
                      /\ ~(config.required /\ ~pending[i].anyChecked)
         /\ status' # status =>
              /\ ~(DownKey \/ UpKey \/ LeftKey \/ RightKey \/ SpaceKey \/ AKey \/ IKey
                     \/ HelpKey \/ OtherKey \/ EnterKeyAwait)
              /\ \A r \in ValidateResults \ {VBool(TRUE)} :
                   ~(EnterWith(r) \/ \E i \in 1..Len(pending) : SettlesWith(i, r))
              /\ ~(EnterKey /\ requiredViolated(items))
       ]_vars

\* a session with required set that a valid Enter completed
C2_Witness == status = "done" /\ config.required /\ yielded # <<>>

\* C3: done is terminal: in no step taken once status is done does the tree,
\* the focus path, the error message or the status change, and no further
\* result is yielded.
C3_DoneIsTerminal ==
  [][status = "done" =>
       UNCHANGED <<items, active, errorMsg, status>> /\ yielded' = yielded]_vars

\* C4: an Enter pressed while required is set and no Choice is checked
\* reports the required message, and validate is not called for it (no
\* handler is left awaiting validate).
C4_RequiredSkipsValidate ==
  [][ /\ (EnterKey /\ requiredViolated(items)) => errorMsg' = MsgRequired
      /\ (EnterKeyAwait /\ requiredViolated(items)) => pending' = pending
      /\ \A i \in 1..Len(pending) :
           ((\E r \in ValidateResults : SettlesWith(i, r))
              /\ config.required /\ ~pending[i].anyChecked) => errorMsg' = MsgRequired
    ]_vars

\* the confirm fails: required is violated, or validate did not resolve to true
confirmFails(violated, r) == violated \/ r # VBool(TRUE)

\* the error of a failed confirm: the required message, the string validate
\* returned, or the fallback (for false and for the empty string)
expectedError(violated, r) ==
  IF violated THEN MsgRequired
  ELSE IF r.kind = "string" /\ r.str # "" THEN r.str
  ELSE MsgFallback

\* the step sets the error to e and changes nothing else of the session
softFailure(e) ==
  /\ errorMsg' = e
  /\ status' = status
  /\ UNCHANGED <<items, active, yielded, session>>

\* C5: a failed confirm is soft and recoverable. The step that completes an
\* Enter whose required check fails or whose validate returned a string or
\* false sets the error (the required message, the returned string or the
\* fallback) and leaves status, tree, focus path and session as they were;
\* and while the session is live with an error shown, an Enter with a valid
\* selection can still be completed and reaches done.
C5_Recoverable ==
  (session = "live" /\ errorMsg # NoError) =>
    /\ (~config.asyncValidate /\ ~requiredViolated(items)) =>
         ENABLED (EnterWith(VBool(TRUE)) /\ status' = "done")
    /\ (config.asyncValidate /\ Len(pending) < MaxPending) => ENABLED EnterKeyAwait
    /\ \A i \in 1..Len(pending) :
         ~(config.required /\ ~pending[i].anyChecked) =>
           ENABLED (SettlesWith(i, VBool(TRUE)) /\ status' = "done")

C5_FailedConfirmIsSoft ==
  /\ []C5_Recoverable
  /\ [][ \A r \in ValidateResults :
           /\ (EnterWith(r) /\ confirmFails(requiredViolated(items), r)) =>
                softFailure(expectedError(requiredViolated(items), r))
           /\ \A i \in 1..Len(pending) :
                (SettlesWith(i, r)
                   /\ confirmFails(config.required /\ ~pending[i].anyChecked, r)) =>
                  softFailure(expectedError(config.required /\ ~pending[i].anyChecked, r))
       ]_vars

\* a session that showed the required message and was then completed
C5_Witness == status = "done" /\ errorMsg = MsgRequired /\ yielded # <<>>

\* the focused item, Undefined when the path leaves the tree
focused == walk(At(items, active[1]), Tail(active))

\* C6: after a Select All pressed while some non-disabled Choice is
\* unchecked, the checked Choices are exactly the non-disabled Choices, and a
\* second Select All right after it leaves no Choice checked.
C6_SelectAllPairs ==
  [][(AKey /\ \E c \in AllChoices(items) : ~c.disabled /\ ~c.checked) =>
       /\ {c.value : c \in {x \in AllChoices(items') : x.checked}}
            = {c.value : c \in {x \in AllChoices(items') : ~x.disabled}}
       /\ Len(getCheckedAll(items')) = Cardinality({x \in AllChoices(items') : ~x.disabled})
       /\ getCheckedAll(selectAllItems(items')) = <<>>
    ]_vars

\* C7: Invert is an involution: a second Invert right after an Invert gives
\* back the tree as it was before the first, with the checked value of
\* every Choice, every expanded flag and the order of the items; and one
\* Invert changes no expanded flag and no position.
unchecked(item) ==
  [item EXCEPT !.checked = FALSE,
               !.choices = [k \in 1..Len(item.choices) |->
                              [item.choices[k] EXCEPT !.checked = FALSE]]]

C7_InvertInvolution ==
  [][IKey =>
       /\ invertItems(items') = items
       /\ Len(items') = Len(items)
       /\ \A k \in 1..Len(items) : unchecked(items'[k]) = unchecked(items[k])
    ]_vars

\* Invert has acted on a tree with a Group: a disabled Choice inside an
\* expanded Group is checked, which no other key does
C7_Witness ==
  \E i \in 1..Len(items) :
    /\ isGroup(items[i]) /\ items[i].expanded
    /\ \E j \in 1..Len(items[i].choices) :
         items[i].choices[j].disabled /\ items[i].choices[j].checked

\* C8: Space on a focused Group that has children: from aggregate partial or
\* none to all, from all to none.
C8_GroupToggle ==
  [][(SpaceKey /\ session' = "live" /\ isGroup(focused) /\ focused.choices # <<>>) =>
       LET before == aggregate(focused)
           after == aggregate(focused')
       IN IF before = "all" THEN after = "none" ELSE after = "all"
    ]_vars

\* C9: with loop = false, Down on the last selectable root item, which is no
\* expanded Group with children, leaves the focus path as it is.
C9_DownStopsAtLast ==
  [][(/\ DownKey
      /\ ~config.loop
      /\ Len(active) = 1
      /\ active[1] = bounds.last
      /\ ~(isGroup(focused) /\ focused.expanded /\ focused.choices # <<>>))
       => active' = active
    ]_vars

\* C10: Up from the path [0] moves the focus to [bounds.last] if loop is
\* true and leaves it at [0] if loop is false.
C10_UpWrapsIffLoop ==
  [][(UpKey /\ active = <<0>>) =>
       IF config.loop THEN active' = <<bounds.last>> ELSE active' = active
    ]_vars

\* an item with its expanded flag put aside
collapsed(item) == [item EXCEPT !.expanded = FALSE]

\* q is p or a path that p continues
isPrefix(q, p) == Len(q) <= Len(p) /\ q = SubSeq(p, 1, Len(q))

\* the trees a and b differ in expanded flags at most
sameButExpanded(a, b) ==
  /\ Len(a) = Len(b)
  /\ \A k \in 1..Len(a) : collapsed(a[k]) = collapsed(b[k])

\* C11: the navigation keys never touch the checked state. A step that
\* changes the tree is no Up or Down; a step that changes more of the tree
\* than expanded flags is no Left or Right; a step that changes the focus
\* path is no Right, and one that does more to it than shorten it is no
\* Left; a step that changes status, error or result is none of the four.
C11_NavigationKeepsChecks ==
  [][ /\ items' # items => ~(UpKey \/ DownKey)
      /\ ~sameButExpanded(items, items') => ~(LeftKey \/ RightKey)
      /\ active' # active => ~RightKey
      /\ ~isPrefix(active', active) => ~LeftKey
      /\ <<status, errorMsg, yielded>>' # <<status, errorMsg, yielded>> =>
           ~(UpKey \/ DownKey \/ LeftKey \/ RightKey)
    ]_vars

\* the focus was inside a Group with a checked child and Left has collapsed
\* that Group: the child is still checked
C11_Witness ==
  /\ session = "live" /\ Len(active) = 1
  /\ isGroup(focused) /\ ~focused.expanded
  /\ \E j \in 1..Len(focused.choices) : focused.choices[j].checked

\* C12: while the prompt is live the focus path leads to an item of the tree
\* (every index is within the sequence it indexes), and that item is no
\* Separator.
C12_FocusResolves ==
  session = "live" => focused # Undefined /\ ~isSeparator(focused)

\* C13: every element of the focus path but the last leads to a Group whose
\* expanded flag is true.
C13_NeverInsideCollapsed ==
  \A n \in 1..(Len(active) - 1) :
    LET g == walk(At(items, active[1]), SubSeq(active, 2, n))
    IN isGroup(g) /\ g.expanded

\* the focus is on the second child of a Group
C13_Witness == session = "live" /\ Len(active) = 2 /\ active[2] = 1

\* no root item is selectable: each is a Separator or disabled
noSelectableRoot(its) ==
  \A k \in 1..Len(its) : its[k].type = "separator" \/ its[k].disabled

\* C14: with no selectable root item the prompt fails at startup and no key
\* is ever handled; otherwise the prompt starts pending with the focus on
\* the first selectable root item.
C14_StartupGuard ==
  /\ IF noSelectableRoot(items)
       THEN session = "startupError"
       ELSE /\ session = "live" /\ status = "pending"
            /\ Len(active) = 1
            /\ active[1] \in 0..(Len(items) - 1)
            /\ ~noSelectableRoot(<<items[active[1] + 1]>>)
            /\ noSelectableRoot(SubSeq(items, 1, active[1]))
  /\ [][session # "startupError"]_vars

\* a prompt that failed at startup, given nothing but a disabled Group
C14_Witness ==
  session = "startupError" /\ Len(items) = 1 /\ isGroup(items[1]) /\ items[1].disabled

\* C15: when the prompt is aborted (its promise rejects with ExitPromptError)
\* the tool goes on with an empty answer: no npm install command is printed
\* or executed and the process exits with 0; when the prompt fails in any
\* other way no command is printed or executed and the process exits with 1.
C15_AbortIsEmptySelection ==
  /\ outcome = "ExitPromptError" =>
       /\ answer = <<>> /\ printed = <<>> /\ executed = <<>>
       /\ pc = "exited" /\ exitCode = <<0>>
  /\ outcome \in PromptErrors \ {"ExitPromptError"} =>
       /\ printed = <<>> /\ executed = <<>>
       /\ pc = "exited" /\ exitCode = <<1>>

\* an aborted prompt of a run without --dry-run, after which the process
\* has exited
C15_Witness ==
  outcome = "ExitPromptError" /\ ~options.dryRun /\ Len(offered) = 2 /\ exitCode # <<>>

\* C16: a validate that fails during Enter makes the promise of the prompt
\* reject, so that the caller is given the failure; no result is yielded and
\* the session does not stay live.
C16_ValidateFailureReachesCaller ==
  [][ValidateRejects =>
       /\ promiseRejected'
       /\ yielded' = yielded
       /\ status' = status
    ]_vars

\* C17: key handling is not reentrant: while a validate call is outstanding
\* the only step taken is the completion of a validate call; no key is
\* handled, a second Enter included.
C17_NotReentrant ==
  [][pending # <<>> => Len(pending') < Len(pending)]_vars

\* the values of the disabled Choices of the tree
disabledValues(its) == {c.value : c \in {x \in AllChoices(its) : x.disabled}}

\* C18: no disabled Choice is in a selection handed to validate or in a
\* result.
C18_OnlyEnabledSelected ==
  /\ \A k \in 1..Len(yielded) : \A j \in 1..Len(yielded[k]) :
       yielded[k][j] \notin disabledValues(items)
  /\ \A k \in 1..Len(pending) : \A j \in 1..Len(pending[k].selection) :
       ~pending[k].selection[j].disabled

\* the values of the disabled Choices that are checked
disabledChecked(its) ==
  {c.value : c \in {x \in AllChoices(its) : x.disabled /\ x.checked}}

\* C19: Select All and Invert change the checked value of no disabled
\* Choice.
C19_DisabledUntouched ==
  [][(AKey \/ IKey) => disabledChecked(items') = disabledChecked(items)]_vars

\* C20: an Up or a Down never leaves the focus on a disabled Choice or a
\* disabled Group, nor on a child of a disabled Group.
C20_SkipsDisabled ==
  [][((UpKey \/ DownKey) /\ session' = "live") =>
       /\ ~focused'.disabled
       /\ Len(active') > 1 => ~At(items', active'[1]).disabled
    ]_vars

\* C21: with --dry-run no command is executed, whatever is printed; without
\* it the commands executed are the commands printed, in the same order.
C21_DryRunPrintsOnly ==
  IF options.dryRun THEN executed = <<>> ELSE executed = printed

\* a --dry-run over two workspaces that has printed both commands
C21_Witness == options.dryRun /\ Len(printed) = 2 /\ exitCode = <<0>>

\* the paths of the visible rows in the order of the rows: the root items,
\* each expanded Group followed at once by its children
RECURSIVE rowPaths(_, _)
rowPaths(its, i) ==
  IF i > Len(its) THEN <<>>
  ELSE <<<<i - 1>>>>
         \o (IF its[i].type = "group" /\ its[i].expanded
               THEN [j \in 1..Len(its[i].choices) |-> <<i - 1, j - 1>>]
               ELSE <<>>)
         \o rowPaths(its, i + 1)

rows == rowPaths(items, 1)

\* C23: from a focus that is a visible row and not the last one, Down moves
\* the focus to the row after it.
C23_DownToNextRow ==
  [][\A k \in 1..(Len(rows) - 1) :
       (DownKey /\ rows[k] = active) => active' = rows[k + 1] /\ session' = "live"
    ]_vars

\* the focus has left the last child of the first root Group for the root
\* item after it
C23_Witness ==
  /\ session = "live" /\ Len(items) = 2 /\ active = <<1>>
  /\ isGroup(items[1]) /\ items[1].expanded /\ Len(items[1].choices) = 2

\* C24: from a focus other than [0] that is a visible row, Up moves the
\* focus to the row before it: the parent of a first child, else the
\* preceding sibling, or the last child of a preceding sibling that is an
\* expanded Group with children; a preceding sibling that is an expanded
\* Group with no children is such a row itself.
C24_UpToPreviousRow ==
  [][\A k \in 2..Len(rows) :
       (UpKey /\ rows[k] = active) => active' = rows[k - 1] /\ session' = "live"
    ]_vars

\* its with the item at root index i replaced by g
withRoot(its, i, g) == [k \in 1..Len(its) |-> IF k = i + 1 THEN g ELSE its[k]]

\* C25: Right on a focused Group sets the expanded flag of that Group and
\* changes nothing else; Right on a focused root item that is no Group
\* changes nothing.
C25_RightExpandsFocused ==
  [][(RightKey /\ Len(active) = 1 /\ focused # Undefined) =>
       /\ items' = IF isGroup(focused)
                     THEN withRoot(items, active[1], [focused EXCEPT !.expanded = TRUE])
                     ELSE items
       /\ UNCHANGED <<active, status, errorMsg, pending, yielded, session>>
    ]_vars

\* two root Groups, the focus on the second, which is expanded while the
\* first is collapsed
C25_Witness ==
  /\ session = "live" /\ Len(items) = 2 /\ active = <<1>>
  /\ isGroup(items[1]) /\ ~items[1].disabled /\ ~items[1].expanded
  /\ items[1].choices # <<>>
  /\ isGroup(items[2]) /\ items[2].expanded

\* C26: Left with the focus on a child of an expanded Group collapses that
\* Group and moves the focus to it; Left with the focus at depth 1 leaves the
\* focus where it is and collapses the focused item if it is a Group; no
\* other item changes.
C26_LeftCollapsesPath ==
  [][LeftKey =>
       LET g == At(items, active[1])
       IN /\ items' = IF isGroup(g)
                        THEN withRoot(items, active[1], [g EXCEPT !.expanded = FALSE])
                        ELSE items
          /\ active' = <<active[1]>>
          /\ (Len(active) = 2 /\ focused # Undefined) => isGroup(g) /\ g.expanded
          /\ UNCHANGED <<status, errorMsg, pending, yielded, session>>
    ]_vars

\* two root Groups, the focus on the first, which is collapsed and has a
\* checked child, while the second is expanded
C26_Witness ==
  /\ session = "live" /\ Len(items) = 2 /\ active = <<0>>
  /\ isGroup(items[1]) /\ ~items[1].expanded
  /\ \E j \in 1..Len(items[1].choices) : items[1].choices[j].checked
  /\ isGroup(items[2]) /\ items[2].expanded

\* the item with the checked value of each of its children put aside
childrenUnchecked(item) ==
  [item EXCEPT !.choices = [k \in 1..Len(item.choices) |->
                              [item.choices[k] EXCEPT !.checked = FALSE]]]

\* its with the item at the path p replaced by x
withItem(its, p, x) ==
  IF Len(p) = 1 THEN withRoot(its, p[1], x)
  ELSE withRoot(its, p[1],
         [its[p[1] + 1] EXCEPT !.choices = withRoot(its[p[1] + 1].choices, p[2], x)])

\* C27: Space leaves the focus path where it is and changes the tree under
\* the focused node only: it flips the checked value of a focused selectable
\* Choice and nothing else; of a focused Group it changes nothing but the
\* checked values of the children; it changes nothing for a focused
\* Separator or disabled Choice.
C27_SpaceFrame ==
  [][(SpaceKey /\ focused # Undefined) =>
       /\ active' = active
       /\ session' = session
       /\ IF isGroup(focused)
            THEN /\ items' = withItem(items, active, focused')
                 /\ childrenUnchecked(focused') = childrenUnchecked(focused)
          ELSE IF focused.type = "choice" /\ ~focused.disabled
            THEN items' = withItem(items, active, [focused EXCEPT !.checked = ~focused.checked])
          ELSE items' = items
    ]_vars

\* the second child of a Group is checked and the first is not, with a
\* disabled root Choice after the Group
C27_Witness ==
  /\ session = "live" /\ Len(items) = 2 /\ active = <<0, 1>>
  /\ isGroup(items[1]) /\ Len(items[1].choices) = 2
  /\ ~items[1].choices[1].checked /\ items[1].choices[2].checked
  /\ items[2].type = "choice" /\ items[2].disabled

\* C28: whenever the focus is a visible row, the active index handed to the
\* pagination is the position of that row among the visible rows (counted
\* from 0), the item at that index is the focused item, and the items handed
\* to the pagination are the visible rows.
C28_PaginationIndexIsFocus ==
  /\ Len(pageItems(items)) = Len(rows)
  /\ \A k \in 1..Len(rows) :
       (session = "live" /\ rows[k] = active) =>
         /\ paginationIndex = k - 1
         /\ At(pageItems(items), paginationIndex) = focused

\* the focus is on the first child of the second root Group, after an
\* expanded Group with two children
C28_Witness ==
  /\ session = "live" /\ Len(items) = 2 /\ active = <<1, 0>>
  /\ isGroup(items[1]) /\ items[1].expanded /\ Len(items[1].choices) = 2

\* C30: a '?' pressed on a focused node calls the help action of that node,
\* and of no other, once (no action when the node is a Separator or has
\* none); it leaves the tree, the focus path, the status and the error as
\* they were; and it does not wait for the action: the prompt accepts the
\* next key with the action still outstanding.
C30_HelpIsFireAndForget ==
  [][(HelpKey /\ focused # Undefined) =>
       /\ helps' = IF config.withHelp /\ ~isSeparator(focused)
                     THEN Append(helps, helpOf(focused))
                     ELSE helps
       /\ items' = items /\ active' = active
       /\ status' = status /\ errorMsg' = errorMsg
       /\ KeyAccepted']_vars

\* the help action of the first child is still outstanding, and the one of
\* its Group was called after it: a key moved the focus in between
C30_Witness ==
  /\ session = "live"
  /\ helps = <<helpOf(MkChoice(11, FALSE, FALSE)), helpOf(MkGroup(FALSE, FALSE, <<>>))>>

\* C29: in help mode auto the first render writes the "reveal more choices"
\* hint exactly when the visible rows (the root items and the children of
\* the expanded Groups) are more than pageSize, and no session has more than
\* one render that writes it.
C29_HintWhenRowsExceedPage ==
  /\ session = "live" => (helpTipBottom <=> Len(rows) > config.pageSize)
  /\ [](hintRenders <= 1)

\* C22: once the choices are built, every entry of the output of npm
\* outdated whose current version differs from its target (wanted, latest
\* under --latest) is the value of a Choice of the prompt, the entries of a
\* package that is outdated in some of its workspaces and not in others
\* included.
C22_EveryOutdatedOffered ==
  pc # "start" =>
    \A i \in 1..Len(outdated) : \A k \in 1..Len(outdated[i].entries) :
      LET info == outdated[i].entries[k]
      IN neq(info.current, target(info)) => \E j \in 1..Len(offered) : offered[j] = info

\* C31: whatever keys are handled while a validate call is outstanding, the
\* result yielded in the step in which status becomes done is the sequence
\* of the values of the checked Choices of the tree at that moment, which is
\* the selection the final summary line is rendered from.
C31_ResultIsTreeAtDone ==
  [][(status # "done" /\ status' = "done") =>
       Last(yielded') = Values(getCheckedAll(items'))]_vars

\* C32: a session calls done(...) at most once, whatever the keys, several
\* Enter presses with their validate calls outstanding included.
C32_DoneAtMostOnce == Len(yielded) <= 1

\* C33: with required set no result is empty: a session whose status is done
\* has yielded at least one value.
C33_RequiredResultNotEmpty ==
  config.required => \A k \in 1..Len(yielded) : yielded[k] # <<>>

\* a required session with an asynchronous validate is done with one value
C33_Witness ==
  /\ config.required /\ config.asyncValidate
  /\ status = "done" /\ Len(yielded) = 1 /\ Len(yielded[1]) = 1

\* the keys of the workspace map
workspaceKeys == {workspaceMap[k].key : k \in 1..Len(workspaceMap)}

\* the printed commands that are for the workspace `dependent` and name info
\* as pkg@target
commandsOf(info) ==
  {k \in 1..Len(printed) :
     \E w \in 1..Len(workspaceMap) :
       /\ workspaceMap[w].key = info.dependent
       /\ printed[k].destinationArg = command(workspaceMap[w], <<>>).destinationArg
       /\ \E d \in 1..Len(printed[k].dependenciesArgs) :
            printed[k].dependenciesArgs[d] = [pkg |-> info.pkg, version |-> target(info)]}

\* the run went through the install loop to its end
installed == pc = "exited" /\ exitCode = <<0>> /\ outcome = "resolved"

\* C34: when the install loop has run to its end, every selected entry is
\* named as pkg@target in exactly one command, the one for the workspace its
\* dependent names, and there are as many commands as workspaces with a
\* selected entry: none is dropped.
C34_EverySelectedInstalled ==
  installed =>
    /\ \A j \in 1..Len(answer) : Cardinality(commandsOf(answer[j])) = 1
    /\ Len(printed) = Cardinality({answer[j].dependent : j \in 1..Len(answer)})

====
